---- MODULE Spec2Model ----
(***************************************************************************)
(* A model of the oc customisation layer:                                  *)
(*   - pkg/cli/shim_kubectl.go: shimKubectlForOc, the startup hook that    *)
(*     overwrites the process-global extension points of kubectl;          *)
(*   - pkg/cli/create/routepassthrough.go: the command                     *)
(*     `oc create route passthrough [NAME] --service=SERVICE`.             *)
(* One behaviour is one process: startup (the hook), then one command      *)
(* execution (cobra's flag parsing and required-flag validation, the Run   *)
(* closure calling Complete and then Run, kcmdutil.CheckErr after each).   *)
(* Run is modelled statement group by statement group; the position of the *)
(* single thread is pc.  Calls that leave the two files (the REST mapper,  *)
(* the core client, the encoder, the route client, the printer) return a   *)
(* result chosen nondeterministically among the outcomes they can have.    *)
(***************************************************************************)
EXTENDS Naturals, Sequences, FiniteSets

VARIABLES
    pc,         \* position of the process
    env,        \* value of the environment variable KUBERNETES_MASTER
    globals,    \* the process-global extension points of kubectl
    writes,     \* history: number of assignments made to each global
    shimCalls,  \* history: number of calls of shimKubectlForOc
    cmd,        \* what cobra parsed: which flags were given, the arguments
    o,          \* the CreatePassthroughRouteOptions struct
    serviceName,\* Run's local variable serviceName
    route,      \* Run's local variable route: <<>> is nil, <<r>> points to r
    err,        \* the error value last returned to the Run closure
    calls,      \* history: the calls made, in order, with the error each returned
    built,      \* history: the route route.UnsecuredRoute returned
    submitted,  \* history: the objects passed to Routes(ns).Create
    store,      \* the routes the server persisted
    printed,    \* history: the objects passed to Printer.PrintObj
    exit        \* the process's outcome: "running", "ok" or "error"

vars == <<pc, env, globals, writes, shimCalls, cmd, o, serviceName, route,
          err, calls, built, submitted, store, printed, exit>>

----------------------------------------------------------------------------
(* Bounds and input sets *)

\* shimKubectlForOc's call site is not in the two files; the model lets
\* startup call it up to this many times.
MaxShimCalls == 2

EnvValues == {"", "https://master.example.com:8443"}
Hostnames == {"", "www.example.com"}
Ports == {"", "8443"}
InsecurePolicies == {"", "Redirect"}
WildcardPolicies == {"", "Subdomain"}
ServiceValues == {"", "frontend", "service/frontend", "pod/web"}
ArgLists == {<<>>, <<"my-route">>}

NoError == "nil"

----------------------------------------------------------------------------
(* pkg/cli/shim_kubectl.go *)

\* The function variables of polymorphichelpers, versioned and
\* describeversioned that shimKubectlForOc reassigns (lines 33-48).
HelperNames ==
    {"AttachablePodForObjectFn", "CanBeExposedFn", "HistoryViewerFn",
     "LogsForObjectFn", "MapBasedSelectorForObjectFn", "ObjectPauserFn",
     "ObjectResumerFn", "PortsForObjectFn", "ProtocolsForObjectFn",
     "RollbackerFn", "StatusViewerFn", "UpdatePodSpecForObjectFn",
     "GeneratorFn", "DescriberFn"}

\* The other globals it writes (lines 23-30).
PlainNames ==
    {"ErrEmptyConfig", "ClusterDefaults",
     "ParseDockerImageReferenceToStringFunc", "specialVerbs",
     "UseModifyConfigLock"}

GlobalNames == HelperNames \cup PlainNames

\* A function value is the chain of implementations a call goes through:
\* origin wrappers first, the upstream default last.
UpstreamFn(v) == << <<"upstream", v>> >>

\* originpolymorphichelpers.New<v>(delegate): an origin implementation of v
\* that falls back on delegate.
NewOriginFn(v, delegate) == << <<"origin", v>> >> \o delegate

\* kcmdcreate.AddSpecialVerb(verb, gr): appends gr to the verb's resources.
AddSpecialVerb(verbs, verb, gr) == Append(verbs, <<verb, gr>>)

\* The values the globals hold when the process starts (kubectl's own).
UpstreamGlobals ==
    [helpers |-> [v \in HelperNames |-> UpstreamFn(v)],
     ErrEmptyConfig |-> "kclientcmd.ErrEmptyConfig",
     ClusterDefaults |-> [Server |-> "http://localhost:8080"],
     ParseDockerImageReferenceToStringFunc |-> "kcmdset.default",
     specialVerbs |-> <<>>,
     UseModifyConfigLock |-> TRUE]

\* Lines 33-48 with one variable's delegate taken from its neighbour.
ShimHelpersCrossed(h) ==
    [v \in HelperNames |->
        IF v = "CanBeExposedFn"
        THEN NewOriginFn(v, h["AttachablePodForObjectFn"])
        ELSE NewOriginFn(v, h[v])]

\* Lines 33-48: every helper variable is assigned its origin variant, built
\* around the value the same variable holds at that point.
ShimHelpers(h) == [v \in HelperNames |-> NewOriginFn(v, h[v])]

shimKubectlForOc ==
    /\ pc = "startup"
    /\ shimCalls < MaxShimCalls
    /\ globals' =
        [helpers |-> ShimHelpers(globals.helpers),
         ErrEmptyConfig |-> "genericclioptions.ErrEmptyConfig",
         ClusterDefaults |-> [Server |-> env],
         ParseDockerImageReferenceToStringFunc |->
             "clientcmd.ParseDockerImageReferenceToStringFunc",
         specialVerbs |->
             AddSpecialVerb(globals.specialVerbs, "use",
                 "securitycontextconstraints.security.openshift.io"),
         UseModifyConfigLock |-> FALSE]
    /\ writes' = [g \in GlobalNames |-> writes[g] + 1]
    /\ shimCalls' = shimCalls + 1
    /\ UNCHANGED <<pc, env, cmd, o, serviceName, route, err, calls, built,
                   submitted, store, printed, exit>>

----------------------------------------------------------------------------
(* pkg/cli/create/routepassthrough.go: the objects *)

\* routev1.TLSConfig as new(routev1.TLSConfig) allocates it: all fields zero.
NewTLSConfig ==
    [Termination |-> "", InsecureEdgeTerminationPolicy |-> "",
     Certificate |-> "", Key |-> "", CACertificate |-> "",
     DestinationCACertificate |-> ""]

TLSTerminationPassthrough == "passthrough"

\* A TLS config another termination mode would carry; used only as a value
\* the route may hold before Run overwrites Spec.TLS.
StaleTLSConfig ==
    [Termination |-> "edge", InsecureEdgeTerminationPolicy |-> "Allow",
     Certificate |-> "PEM-cert", Key |-> "PEM-key",
     CACertificate |-> "PEM-ca", DestinationCACertificate |-> ""]

\* The options struct as NewCmdCreatePassthroughRoute allocates it.
NewOptions ==
    [Hostname |-> "", Port |-> "", InsecurePolicy |-> "", Service |-> "",
     WildcardPolicy |-> "",
     Name |-> "", Namespace |-> "", EnforceNamespace |-> FALSE,
     DryRunStrategy |-> "none", CreateAnnotation |-> FALSE]

DryRunStrategies == {"none", "client", "server"}
DryRunClient == "client"

\* What util.CreateOrUpdateAnnotation stores in the last-applied annotation:
\* the encoded object, without the annotation itself.
Encode(r) ==
    [Name |-> r.Name, Namespace |-> r.Namespace, To |-> r.To,
     Port |-> r.Port, Host |-> r.Host, WildcardPolicy |-> r.WildcardPolicy,
     TLS |-> r.TLS]

----------------------------------------------------------------------------
(* Calls that leave routepassthrough.go; each yields the set of its outcomes *)

\* The [NAME] argument, as CreateRouteSubcommandOptions.Complete reads it.
resolveRouteName(args) == IF Len(args) = 0 THEN "" ELSE args[1]

\* CreateRouteSubcommandOptions.Complete: fills the shared options from the
\* factory and the inherited flags, or fails.
SubcommandComplete(opts, c) ==
    {[err |-> "complete: no namespace", o |-> opts]}
    \cup
    {[err |-> NoError,
      o |-> [opts EXCEPT !.Name = resolveRouteName(c.args),
                         !.Namespace = "myproject",
                         !.EnforceNamespace = enforce,
                         !.DryRunStrategy = c.dryRun,
                         !.CreateAnnotation = c.saveConfig]] :
        enforce \in BOOLEAN}

\* The SERVICE argument in "name" or "type/name" syntax.
ServiceRef(resource) ==
    CASE resource = "frontend" -> [type |-> "services", name |-> "frontend"]
      [] resource = "service/frontend" ->
            [type |-> "services", name |-> "frontend"]
      [] resource = "pod/web" -> [type |-> "pods", name |-> "web"]
      [] OTHER -> [type |-> "", name |-> ""]

\* resolveServiceName(mapper, resource): the name of the service, or an
\* error: none given, not a service, or the mapper cannot resolve the type.
resolveServiceName(resource) ==
    IF resource = ""
    THEN {[err |-> "you need to provide a service name via --service",
           name |-> ""]}
    ELSE IF ServiceRef(resource).type # "services"
    THEN {[err |-> "cannot expose pods as routes", name |-> ""]}
    ELSE {[err |-> NoError, name |-> ServiceRef(resource).name],
          [err |-> "mapper: no match for kind", name |-> ""]}

\* route.UnsecuredRoute(kc, namespace, routeName, serviceName, portString,
\* false, enforceNamespace): a route to the service, or an error.  Run
\* overwrites Spec.Host and Spec.TLS whatever they are, so the model lets
\* them be anything; Spec.WildcardPolicy is returned at its zero value.
UnsecuredRoute(namespace, routeName, svc, portString, enforceNamespace) ==
    {[err |-> e, route |-> <<>>] :
        e \in {"service doesn't support TCP",
               "you need to provide a route port via --port"}}
    \cup
    {[err |-> NoError,
      route |-> <<[Name |-> IF routeName = "" THEN svc ELSE routeName,
                   Namespace |-> IF enforceNamespace THEN namespace ELSE "",
                   To |-> svc,
                   Port |-> port,
                   Host |-> host,
                   WildcardPolicy |-> "",
                   TLS |-> tls,
                   Annotation |-> <<>>,
                   ResourceVersion |-> ""]>>] :
        port \in {portString} \cup
                 (IF portString = "" THEN {"8080-tcp"} ELSE {}),
        host \in {"", "stale.example.com"},
        tls \in {<<>>, <<StaleTLSConfig>>}}

\* util.CreateOrUpdateAnnotation(createAnnotation, obj, encoder): with
\* --save-config the encoded object is stored in the object's last-applied
\* annotation; without it the object is left alone.  Either may fail.
CreateOrUpdateAnnotation(createAnnotation, r) ==
    {[err |-> "annotation: cannot encode object", route |-> r],
     [err |-> NoError,
      route |-> IF createAnnotation
                THEN [r EXCEPT !.Annotation = <<Encode(r)>>]
                ELSE r]}

\* Client.Routes(namespace).Create(ctx, route, metav1.CreateOptions{}): the
\* server rejects the object, or stores it and returns what it stored: the
\* object with server-side metadata, every field the client set kept, and
\* the fields the client left empty that the server fills in (it may assign
\* a host, and it may default the wildcard policy to "None").
GeneratedHost == "frontend-myproject.apps.example.com"
RoutesCreate(namespace, r) ==
    {[err |-> e, route |-> r] :
        e \in {"routes already exists", "route is invalid"}}
    \cup
    {[err |-> NoError,
      route |-> [r EXCEPT !.Namespace = namespace,
                          !.Host = host,
                          !.WildcardPolicy = wp,
                          !.ResourceVersion = "1001"]] :
        host \in (IF r.Host = "" THEN {"", GeneratedHost} ELSE {r.Host}),
        wp \in (IF r.WildcardPolicy = "" THEN {"", "None"}
                ELSE {r.WildcardPolicy})}

\* Printer.PrintObj(obj, out): writes the object, or fails.
PrintObj == {NoError, "print: write failed"}

----------------------------------------------------------------------------
(* pkg/cli/create/routepassthrough.go: the command *)

Init ==
    /\ pc = "startup"
    /\ env \in EnvValues
    /\ globals = UpstreamGlobals
    /\ writes = [g \in GlobalNames |-> 0]
    /\ shimCalls = 0
    /\ cmd = [serviceChanged |-> FALSE, dryRun |-> "none",
              saveConfig |-> FALSE, args |-> <<>>]
    /\ o = NewOptions
    /\ serviceName = ""
    /\ route = <<>>
    /\ err = NoError
    /\ calls = <<>>
    /\ built = <<>>
    /\ submitted = <<>>
    /\ store = {}
    /\ printed = <<>>
    /\ exit = "running"

\* The process-global configuration is in place before any command runs.
StartupDone == shimCalls >= 1

\* Lines 62-71: cobra parses the command line into the bound fields of o
\* (a flag that is not given leaves the field's default, the empty string)
\* and records which flags were given.
ParseFlags ==
    /\ pc = "startup"
    /\ StartupDone
    /\ \E hostname \in Hostnames, port \in Ports,
          insecure \in InsecurePolicies, wildcard \in WildcardPolicies,
          given \in BOOLEAN, service \in ServiceValues,
          dryRun \in DryRunStrategies, save \in BOOLEAN, args \in ArgLists :
            /\ o' = [o EXCEPT !.Hostname = hostname,
                              !.Port = port,
                              !.InsecurePolicy = insecure,
                              !.WildcardPolicy = wildcard,
                              !.Service = IF given THEN service ELSE ""]
            /\ cmd' = [serviceChanged |-> given, dryRun |-> dryRun,
                       saveConfig |-> save, args |-> args]
    /\ pc' = "validate"
    /\ UNCHANGED <<env, globals, writes, shimCalls, serviceName, route, err,
                   calls, built, submitted, store, printed, exit>>

\* The check without the required mark on --service.
RequiredFlagsSetUnmarked(c) == TRUE

\* Line 66, cmd.MarkFlagRequired("service"): cobra's check passes when the
\* flag was given on the command line, whatever its value.
RequiredFlagsSet(c) == c.serviceChanged

\* cobra validates the required flags before it calls the Run closure; when
\* one is missing the command ends with an error and the closure never runs.
ValidateRequiredFlags ==
    /\ pc = "validate"
    /\ IF RequiredFlagsSet(cmd)
       THEN /\ pc' = "complete"
            /\ UNCHANGED <<err, exit>>
       ELSE /\ pc' = "done"
            /\ err' = "required flag(s) \"service\" not set"
            /\ exit' = "error"
    /\ UNCHANGED <<env, globals, writes, shimCalls, cmd, o, serviceName,
                   route, calls, built, submitted, store, printed>>

\* kcmdutil.CheckErr(e) on a returned error: the process reports it and
\* exits non-zero; on nil the closure goes on (to `next`).
CheckErr(e, next) ==
    /\ err' = e
    /\ IF e = NoError
       THEN /\ pc' = next
            /\ exit' = IF next = "done" THEN "ok" ELSE exit
       ELSE /\ pc' = "done"
            /\ exit' = "error"

\* Lines 58 and 76-78: the closure calls o.Complete, which delegates to the
\* shared subcommand options.
Complete ==
    /\ pc = "complete"
    /\ \E res \in SubcommandComplete(o, cmd) :
        /\ calls' = Append(calls, [fn |-> "Complete", err |-> res.err])
        /\ o' = res.o
        /\ CheckErr(res.err, "run")
    /\ UNCHANGED <<env, globals, writes, shimCalls, cmd, serviceName, route,
                   built, submitted, store, printed>>

\* Lines 81-84.
RunResolve ==
    /\ pc = "run"
    /\ \E res \in resolveServiceName(o.Service) :
        /\ calls' = Append(calls, [fn |-> "resolveServiceName",
                                   err |-> res.err])
        /\ serviceName' = res.name
        /\ CheckErr(res.err, "build")
    /\ UNCHANGED <<env, globals, writes, shimCalls, cmd, o, route, built,
                   submitted, store, printed>>

\* Lines 85-88.
RunBuild ==
    /\ pc = "build"
    /\ \E res \in UnsecuredRoute(o.Namespace, o.Name, serviceName, o.Port,
                                 o.EnforceNamespace) :
        /\ calls' = Append(calls, [fn |-> "UnsecuredRoute", err |-> res.err])
        /\ route' = res.route
        /\ built' = res.route
        /\ CheckErr(res.err, "populate")
    /\ UNCHANGED <<env, globals, writes, shimCalls, cmd, o, serviceName,
                   submitted, store, printed>>

\* Populate with the termination mode depending on --insecure-policy.
PopulateTerminationFromFlag(r, opts) ==
    LET r1 == IF Len(opts.WildcardPolicy) > 0
              THEN [r EXCEPT !.WildcardPolicy = opts.WildcardPolicy]
              ELSE r
        r2 == [r1 EXCEPT !.Host = opts.Hostname]
        tls2 == IF Len(opts.InsecurePolicy) > 0
                THEN [NewTLSConfig EXCEPT
                        !.Termination = "edge",
                        !.InsecureEdgeTerminationPolicy = opts.InsecurePolicy]
                ELSE [NewTLSConfig EXCEPT
                        !.Termination = TLSTerminationPassthrough]
    IN  [r2 EXCEPT !.TLS = <<tls2>>]

\* Populate without line 96: the termination mode is never set.
PopulateNoTermination(r, opts) ==
    LET r1 == IF Len(opts.WildcardPolicy) > 0
              THEN [r EXCEPT !.WildcardPolicy = opts.WildcardPolicy]
              ELSE r
        r2 == [r1 EXCEPT !.Host = opts.Hostname]
        tls2 == IF Len(opts.InsecurePolicy) > 0
                THEN [NewTLSConfig EXCEPT !.InsecureEdgeTerminationPolicy =
                                        opts.InsecurePolicy]
                ELSE NewTLSConfig
    IN  [r2 EXCEPT !.TLS = <<tls2>>]

\* Populate with line 94 guarded like the other flags: the host is set only
\* when --hostname is given.
PopulateHostIfSet(r, opts) ==
    LET r1 == IF Len(opts.WildcardPolicy) > 0
              THEN [r EXCEPT !.WildcardPolicy = opts.WildcardPolicy]
              ELSE r
        r2 == IF Len(opts.Hostname) > 0
              THEN [r1 EXCEPT !.Host = opts.Hostname]
              ELSE r1
        tls1 == [NewTLSConfig EXCEPT
                    !.Termination = TLSTerminationPassthrough]
        tls2 == IF Len(opts.InsecurePolicy) > 0
                THEN [tls1 EXCEPT !.InsecureEdgeTerminationPolicy =
                                        opts.InsecurePolicy]
                ELSE tls1
    IN  [r2 EXCEPT !.TLS = <<tls2>>]

\* Populate with the flag's documented default written by the client: an
\* empty --wildcard-policy becomes "None".
PopulateWildcardDefault(r, opts) ==
    LET r1 == IF Len(opts.WildcardPolicy) > 0
              THEN [r EXCEPT !.WildcardPolicy = opts.WildcardPolicy]
              ELSE [r EXCEPT !.WildcardPolicy = "None"]
        r2 == [r1 EXCEPT !.Host = opts.Hostname]
        tls1 == [NewTLSConfig EXCEPT
                    !.Termination = TLSTerminationPassthrough]
        tls2 == IF Len(opts.InsecurePolicy) > 0
                THEN [tls1 EXCEPT !.InsecureEdgeTerminationPolicy =
                                        opts.InsecurePolicy]
                ELSE tls1
    IN  [r2 EXCEPT !.TLS = <<tls2>>]

\* Populate with line 95 allocating only when Spec.TLS is nil: an existing
\* TLS config is kept and updated in place.
PopulateReuseTLS(r, opts) ==
    LET r1 == IF Len(opts.WildcardPolicy) > 0
              THEN [r EXCEPT !.WildcardPolicy = opts.WildcardPolicy]
              ELSE r
        r2 == [r1 EXCEPT !.Host = opts.Hostname]
        tls0 == IF r.TLS = <<>> THEN NewTLSConfig ELSE r.TLS[1]
        tls1 == [tls0 EXCEPT !.Termination = TLSTerminationPassthrough]
        tls2 == IF Len(opts.InsecurePolicy) > 0
                THEN [tls1 EXCEPT !.InsecureEdgeTerminationPolicy =
                                        opts.InsecurePolicy]
                ELSE tls1
    IN  [r2 EXCEPT !.TLS = <<tls2>>]

\* Lines 90-100: the fields Run sets on the route from the flags.
Populate(r, opts) ==
    LET r1 == IF Len(opts.WildcardPolicy) > 0
              THEN [r EXCEPT !.WildcardPolicy = opts.WildcardPolicy]
              ELSE r
        r2 == [r1 EXCEPT !.Host = opts.Hostname]
        tls1 == [NewTLSConfig EXCEPT
                    !.Termination = TLSTerminationPassthrough]
        tls2 == IF Len(opts.InsecurePolicy) > 0
                THEN [tls1 EXCEPT !.InsecureEdgeTerminationPolicy =
                                        opts.InsecurePolicy]
                ELSE tls1
    IN  [r2 EXCEPT !.TLS = <<tls2>>]

RunPopulate ==
    /\ pc = "populate"
    /\ route' = <<Populate(route[1], o)>>
    /\ pc' = "annotate"
    /\ UNCHANGED <<env, globals, writes, shimCalls, cmd, o, serviceName, err,
                   calls, built, submitted, store, printed, exit>>

\* Lines 102-104 with the returned error dropped: Run goes on to the server.
RunAnnotateIgnoreErr ==
    /\ pc = "annotate"
    /\ \E res \in CreateOrUpdateAnnotation(o.CreateAnnotation, route[1]) :
        /\ calls' = Append(calls, [fn |-> "CreateOrUpdateAnnotation",
                                   err |-> res.err])
        /\ route' = <<res.route>>
    /\ pc' = "create"
    /\ UNCHANGED <<env, globals, writes, shimCalls, cmd, o, serviceName,
                   built, submitted, store, printed, err, exit>>

\* Lines 102-104.
RunAnnotate ==
    /\ pc = "annotate"
    /\ \E res \in CreateOrUpdateAnnotation(o.CreateAnnotation, route[1]) :
        /\ calls' = Append(calls, [fn |-> "CreateOrUpdateAnnotation",
                                   err |-> res.err])
        /\ route' = <<res.route>>
        /\ CheckErr(res.err, "create")
    /\ UNCHANGED <<env, globals, writes, shimCalls, cmd, o, serviceName,
                   built, submitted, store, printed>>

\* Line 106 testing for "no dry run" instead of "not client dry run".
ShouldCreateOnlyNone(strategy) == strategy = "none"

\* Line 106: the condition under which Run calls the server.
ShouldCreate(strategy) == strategy # DryRunClient

\* Lines 106-111 with a failed Create tried a second time.
RunCreateRetry ==
    /\ pc = "create"
    /\ IF ShouldCreate(o.DryRunStrategy)
       THEN \E res1 \in RoutesCreate(o.Namespace, route[1]),
               res2 \in RoutesCreate(o.Namespace, route[1]) :
                IF res1.err = NoError
                THEN /\ submitted' = Append(submitted, route[1])
                     /\ calls' = Append(calls, [fn |-> "Create",
                                                err |-> res1.err])
                     /\ route' = <<res1.route>>
                     /\ store' = store \cup {res1.route}
                     /\ CheckErr(res1.err, "print")
                ELSE /\ submitted' = submitted \o <<route[1], route[1]>>
                     /\ calls' = calls \o
                            <<[fn |-> "Create", err |-> res1.err],
                              [fn |-> "Create", err |-> res2.err]>>
                     /\ route' = <<res2.route>>
                     /\ store' = IF res2.err = NoError
                                 THEN store \cup {res2.route}
                                 ELSE store
                     /\ CheckErr(res2.err, "print")
       ELSE /\ pc' = "print"
            /\ UNCHANGED <<calls, submitted, route, store, err, exit>>
    /\ UNCHANGED <<env, globals, writes, shimCalls, cmd, o, serviceName,
                   built, printed>>

\* Lines 106-111.
RunCreate ==
    /\ pc = "create"
    /\ IF ShouldCreate(o.DryRunStrategy)
       THEN /\ submitted' = Append(submitted, route[1])
            /\ \E res \in RoutesCreate(o.Namespace, route[1]) :
                /\ calls' = Append(calls, [fn |-> "Create", err |-> res.err])
                /\ route' = <<res.route>>
                /\ store' = IF res.err = NoError
                            THEN store \cup {res.route}
                            ELSE store
                /\ CheckErr(res.err, "print")
       ELSE /\ pc' = "print"
            /\ UNCHANGED <<calls, submitted, route, store, err, exit>>
    /\ UNCHANGED <<env, globals, writes, shimCalls, cmd, o, serviceName,
                   built, printed>>

\* Line 113 (and line 59 on what it returns).
RunPrint ==
    /\ pc = "print"
    /\ printed' = Append(printed, route[1])
    /\ \E e \in PrintObj :
        /\ calls' = Append(calls, [fn |-> "PrintObj", err |-> e])
        /\ CheckErr(e, "done")
    /\ UNCHANGED <<env, globals, writes, shimCalls, cmd, o, serviceName,
                   route, built, submitted, store>>

Next ==
    \/ shimKubectlForOc
    \/ ParseFlags
    \/ ValidateRequiredFlags
    \/ Complete
    \/ RunResolve
    \/ RunBuild
    \/ RunPopulate
    \/ RunAnnotate
    \/ RunCreate
    \/ RunPrint

Spec == Init /\ [][Next]_vars

----------------------------------------------------------------------------
(* Properties *)

Objs(seq) == {seq[i] : i \in 1..Len(seq)}

FnSeq == [i \in 1..Len(calls) |-> calls[i].fn]

IsPrefix(s, t) ==
    /\ Len(s) <= Len(t)
    /\ \A i \in 1..Len(s) : s[i] = t[i]

\* C1: every route passed to the remote Create or to PrintObj has a non-nil
\* Spec.TLS whose Termination is "passthrough", whatever the flags and the
\* dry-run strategy are.
C1_PassthroughAlways ==
    \A r \in Objs(submitted) \cup Objs(printed) :
        /\ r.TLS # <<>>
        /\ r.TLS[1].Termination = TLSTerminationPassthrough

C1_Witness ==
    /\ Len(submitted) = 1
    /\ Len(printed) = 1
    /\ o.InsecurePolicy # ""
    /\ built[1].TLS # <<>>

\* C2: when --service is not given, the command ends in an error before the
\* Run closure starts: no Complete, no name resolution, no route, no remote
\* Create, no PrintObj.
C2_MissingServiceFailsValidation ==
    (pc \notin {"startup", "validate"} /\ ~cmd.serviceChanged) =>
        /\ pc = "done"
        /\ exit = "error"
        /\ err # NoError
        /\ calls = <<>>
        /\ serviceName = ""
        /\ route = <<>>
        /\ built = <<>>
        /\ submitted = <<>>
        /\ store = {}
        /\ printed = <<>>

C2_Witness ==
    /\ pc = "done"
    /\ ~cmd.serviceChanged
    /\ o.Hostname # ""

\* C3: a call that returns an error is the last call made: the command is
\* over, the error it ends with is that very error, and nothing later ran
\* (no remote Create after a resolution, construction or annotation error,
\* no PrintObj after any error).
C3_FirstErrorPropagates ==
    \A i \in 1..Len(calls) :
        calls[i].err # NoError =>
            /\ i = Len(calls)
            /\ pc = "done"
            /\ exit = "error"
            /\ err = calls[i].err
            /\ calls[i].fn \in {"Complete", "resolveServiceName",
                                "UnsecuredRoute", "CreateOrUpdateAnnotation"}
                    => (submitted = <<>> /\ store = {})
            /\ calls[i].fn # "PrintObj" => printed = <<>>

C3_Witness ==
    /\ pc = "done"
    /\ Len(calls) = 4
    /\ calls[4].fn = "CreateOrUpdateAnnotation"
    /\ calls[4].err # NoError
    /\ err = calls[4].err

\* C4 as stated: every route submitted or printed has Spec.Host equal to
\* --hostname (the empty string when the flag is not given).
C4_HostEqualsFlagEverywhere ==
    \A r \in Objs(submitted) \cup Objs(printed) : r.Host = o.Hostname

\* C4, amended: the route submitted to Create has Spec.Host equal to
\* --hostname, empty when the flag is not given, whatever host
\* route.UnsecuredRoute returned; so has the printed route under client dry
\* run, and the printed route whenever --hostname is non-empty.
C4_HostEqualsFlag ==
    /\ \A r \in Objs(submitted) : r.Host = o.Hostname
    /\ \A r \in Objs(printed) :
        (o.Hostname # "" \/ o.DryRunStrategy = DryRunClient) =>
            r.Host = o.Hostname

C4_Witness ==
    /\ Len(printed) = 1
    /\ o.DryRunStrategy = DryRunClient
    /\ o.Hostname = ""
    /\ built[1].Host # ""
    /\ printed[1].Host = ""

\* C5 as stated: every route submitted or printed has Spec.WildcardPolicy
\* equal to --wildcard-policy, the zero value when the flag is not given.
C5_WildcardEqualsFlagEverywhere ==
    \A r \in Objs(submitted) \cup Objs(printed) :
        r.WildcardPolicy = o.WildcardPolicy

\* C5, amended: the route submitted to Create has Spec.WildcardPolicy equal
\* to --wildcard-policy, left at its zero value when the flag is not given;
\* so has the printed route under client dry run, and the printed route
\* whenever --wildcard-policy is non-empty.
C5_WildcardEqualsFlag ==
    /\ \A r \in Objs(submitted) : r.WildcardPolicy = o.WildcardPolicy
    /\ \A r \in Objs(printed) :
        (o.WildcardPolicy # "" \/ o.DryRunStrategy = DryRunClient) =>
            r.WildcardPolicy = o.WildcardPolicy

C5_Witness ==
    /\ Len(submitted) = 1
    /\ o.WildcardPolicy = ""
    /\ submitted[1].WildcardPolicy = ""
    /\ Len(printed) = 1

C7_PersistenceGuardedByDryRun ==
    /\ o.DryRunStrategy = DryRunClient =>
        /\ submitted = <<>>
        /\ store = {}
        /\ \A i \in 1..Len(calls) : calls[i].fn # "Create"
        /\ \A r \in Objs(printed) : r = route[1] /\ r.ResourceVersion = ""
    /\ (o.DryRunStrategy # DryRunClient /\ (pc = "print" \/ printed # <<>>)) =>
        /\ Len(submitted) = 1
        /\ \E i \in 1..Len(calls) :
            calls[i] = [fn |-> "Create", err |-> NoError]
        /\ \A r \in Objs(printed) : r \in store /\ r.ResourceVersion # ""

C7_Witness ==
    /\ o.DryRunStrategy = "server"
    /\ Len(printed) = 1
    /\ printed[1] \in store
    /\ printed[1].Host # submitted[1].Host

OrderWithCreate ==
    <<"Complete", "resolveServiceName", "UnsecuredRoute",
      "CreateOrUpdateAnnotation", "Create", "PrintObj">>

OrderWithoutCreate ==
    <<"Complete", "resolveServiceName", "UnsecuredRoute",
      "CreateOrUpdateAnnotation", "PrintObj">>

\* C8: the calls of one command execution follow the order resolve, build,
\* annotate, submit, print; at most one remote Create is made (a failed one
\* is not retried); the submitted route carries the host, the TLS config,
\* the wildcard policy and, with --save-config, an annotation that encodes
\* exactly the submitted object; PrintObj follows only a successful Create.
C8_FixedOrderSingleCreate ==
    /\ IsPrefix(FnSeq, OrderWithCreate) \/ IsPrefix(FnSeq, OrderWithoutCreate)
    /\ Len(submitted) <= 1
    /\ Len(printed) <= 1
    /\ \A r \in Objs(submitted) :
        /\ r.Host = o.Hostname
        /\ r.TLS # <<>>
        /\ o.WildcardPolicy # "" => r.WildcardPolicy = o.WildcardPolicy
        /\ r.Annotation = IF o.CreateAnnotation THEN <<Encode(r)>> ELSE <<>>
    /\ printed # <<>> =>
        \A i \in 1..Len(calls) :
            calls[i].fn = "Create" => calls[i].err = NoError

C8_Witness ==
    /\ Len(submitted) = 1
    /\ Len(printed) = 1
    /\ o.CreateAnnotation
    /\ o.WildcardPolicy # ""
    /\ FnSeq = OrderWithCreate

\* n origin wrappers around the upstream default of v.
ExpectedChain(v, n) ==
    [i \in 1..(n + 1) |->
        IF i <= n THEN <<"origin", v>> ELSE <<"upstream", v>>]

\* C9: after n calls of shimKubectlForOc every overridden global has been
\* written n times, each helper is n origin wrappers around its upstream
\* default (one call wraps what the variable held; a second call wraps
\* again), the hook has run before the command starts, and the command
\* writes none of the globals.
C9_ShimWritesOncePerCall ==
    /\ \A g \in GlobalNames : writes[g] = shimCalls
    /\ \A v \in HelperNames :
        globals.helpers[v] = ExpectedChain(v, shimCalls)
    /\ shimCalls >= 1 =>
        /\ globals.ErrEmptyConfig = "genericclioptions.ErrEmptyConfig"
        /\ globals.ClusterDefaults = [Server |-> env]
        /\ globals.UseModifyConfigLock = FALSE
        /\ Len(globals.specialVerbs) = shimCalls
    /\ pc # "startup" => shimCalls >= 1
    /\ shimCalls >= 2 =>
        \A v \in HelperNames : globals.helpers[v] # ExpectedChain(v, 1)

C9_Witness ==
    /\ shimCalls = 2
    /\ pc = "done"
    /\ printed # <<>>
    /\ Len(globals.helpers["CanBeExposedFn"]) = 3

\* The TLS config Run builds: fresh, passthrough, the insecure policy of the
\* flag (zero when the flag is not given), nothing else.
ExpectedTLS ==
    [Termination |-> "passthrough",
     InsecureEdgeTerminationPolicy |-> o.InsecurePolicy,
     Certificate |-> "", Key |-> "", CACertificate |-> "",
     DestinationCACertificate |-> ""]

\* C10: the TLS config of every route submitted or printed is a fresh one
\* holding only Termination = passthrough and the --insecure-policy value;
\* certificate, key and CA certificates are empty whatever TLS config
\* route.UnsecuredRoute returned.
C10_FreshTLSConfig ==
    \A r \in Objs(submitted) \cup Objs(printed) : r.TLS = <<ExpectedTLS>>

C10_Witness ==
    /\ Len(submitted) = 1
    /\ Len(printed) = 1
    /\ built[1].TLS = <<StaleTLSConfig>>
    /\ o.InsecurePolicy = ""
    /\ printed[1].TLS[1].Certificate = ""

====
